---- MODULE Spec2Model ----
(***************************************************************************)
(* Song acquisition and catalog consistency of the mree backend: the       *)
(* intake handler (routers/search.py), the Celery task download_song and   *)
(* the reclaimer cleanup_failed_downloads (tasks.py), the orchestrator     *)
(* DownloadService.download_song (services/download_service.py), the       *)
(* catalog writes of ElasticsearchService, and the sliding-window rate      *)
(* limiter (middleware/rate_limiting.py).                                   *)
(*                                                                         *)
(* One external id is under contention.  A job is identified by the user   *)
(* whose request enqueued it.                                              *)
(***************************************************************************)
EXTENDS Integers, FiniteSets, Sequences, TLC

\* ------------------------------------------------------------------ bounds
Users == {"u1", "u2", "u3"}

\* the clock of the catalog advances in ticks of TickMinutes, one tick taking
\* a fresh entry past the staleness threshold; ages saturate
MaxAgeTicks == 1
TickMinutes == 90

\* rate limiter: checks made, and advances of the clock
MaxChecks == 4
MaxAdvances == 3

\* ------------------------------------------------------- program constants
max_retries == 3
PollAttempts == 30
StaleMinutes == 60

VARIABLES
    spotify_id,     \* the {spotify_id} of the requests: a name of SpotifyIds
    library,        \* per user: number of UserLibrary rows for the id
    cat,            \* the Elasticsearch document of the id
    age,            \* ticks since the document's updated_at
    fileOnDisk,     \* the final storage file exists
    lock,           \* the <id>.downloading file exists
    pc,             \* position of each job
    acquired,       \* the job's lock: "no", "lost" (touch failed), "won", "released",
                    \* "orphaned" (left on disk by the job's dead process)
    polls,          \* polls done by a job in the wait loop
    retries,        \* self.request.retries of the job
    countdown,      \* countdown of the job's last self.retry call (0: none yet)
    ret,            \* value download_song returns to the job
    outcome,        \* the "status" of the dict the task returned
    sweep,          \* position of cleanup_failed_downloads
    fetched,        \* history: jobs that reached _download_audio
    extFailed,      \* history: an external call has failed
    wroteUnlocked,  \* history: statuses written by a job not holding the lock
    transferFailed, \* history: jobs whose download_song call failed at fetch or move
    handler,        \* per server: the request_download call in progress, or its response
    rlPath,         \* request.url.path of the client's next request
    rlNow,          \* int(time.time()) of the servers
    zset,           \* per key rate_limit:<client>:<path>: members of the sorted set
    expireAt,       \* per key: time at which the key expires
    rlReq,          \* per server: the check in flight, or NoReq
    rlChecks,       \* history: number of checks executed
    rlFirst,        \* history: current_time of the first check executed (-1: none)
    rlPrev,         \* history: the check executed before the last one
    rlLast,         \* history: the check executed last
    rlAllowed,      \* history: number of allowed checks per current_time
    rlOverlapped,   \* history: a check began while another was in flight
    rlAdvances,     \* number of clock advances so far
    redis_client    \* per server: self.redis_client is connected (FALSE: None)

rlVars == <<rlPath, rlNow, zset, expireAt, rlReq, rlChecks, rlFirst, rlPrev, rlLast,
           rlAllowed, rlOverlapped, rlAdvances, redis_client>>

coreVars == <<spotify_id, library, cat, age, fileOnDisk, lock, pc, acquired, polls,
              retries, countdown, ret, outcome, sweep, fetched, extFailed, wroteUnlocked,
              transferFailed, handler>>

vars == <<coreVars, rlVars>>

Servers == {"s1", "s2"}

\* ------------------------------------------------------- the external id
\* a string is the sequence of its characters
Rep(c, n) == [i \in 1..n |-> c]

\* the ids requests carry: one of the form Spotify issues, and three that
\* are not 22 alphanumeric characters
SpotifyIds ==
    [wellformed |-> Rep("a", 10) \o Rep("Z", 6) \o Rep("7", 6),
     short      |-> Rep("a", 10) \o Rep("Z", 6) \o Rep("7", 5),
     long       |-> Rep("a", 10) \o Rep("Z", 6) \o Rep("7", 7),
     dashed     |-> Rep("a", 10) \o <<"-">> \o Rep("Z", 5) \o Rep("7", 6)]

Whitespace == {" ", "\t", "\n", "\r"}

\* the character class [0-9A-Za-z]
Alnum ==
    {"0", "1", "2", "3", "4", "5", "6", "7", "8", "9",
     "A", "B", "C", "D", "E", "F", "G", "H", "I", "J", "K", "L", "M",
     "N", "O", "P", "Q", "R", "S", "T", "U", "V", "W", "X", "Y", "Z",
     "a", "b", "c", "d", "e", "f", "g", "h", "i", "j", "k", "l", "m",
     "n", "o", "p", "q", "r", "s", "t", "u", "v", "w", "x", "y", "z"}

\* value.strip()
RECURSIVE LStrip(_)
LStrip(value) ==
    IF value # <<>> /\ Head(value) \in Whitespace THEN LStrip(Tail(value)) ELSE value
RECURSIVE RStrip(_)
RStrip(value) ==
    IF value # <<>> /\ value[Len(value)] \in Whitespace
    THEN RStrip(SubSeq(value, 1, Len(value) - 1))
    ELSE value
Strip(value) == RStrip(LStrip(value))

\* SPOTIFY_ID_PATTERN.match(value): ^[0-9A-Za-z]{22}$
SPOTIFY_ID_PATTERN(value) ==
    Len(value) = 22 /\ \A i \in 1..Len(value) : value[i] \in Alnum

\* validate_spotify_id: the stripped value, or ValueError
validate_spotify_id(value) ==
    LET v == Strip(value)
    IN  IF v = <<>> \/ ~SPOTIFY_ID_PATTERN(v)
        THEN [error |-> TRUE, value |-> <<>>]
        ELSE [error |-> FALSE, value |-> v]

\* the ids of SpotifyIds that validate_spotify_id refuses
MalformedIds == {k \in DOMAIN SpotifyIds : validate_spotify_id(SpotifyIds[k]).error}

\* self.sp.track(track_id): the metadata service knows no track under an id
\* that is not of its form, so the lookup of such an id raises
LookupOutcomes == IF spotify_id \in MalformedIds THEN {FALSE} ELSE BOOLEAN

\* ------------------------------------------------------------ the catalog
NoDoc == [status |-> "none", file_path |-> FALSE, download_count |-> 0]

\* ElasticsearchService.song_exists
SongExists == cat.status # "none" /\ cat.file_path /\ fileOnDisk

\* es.update with "doc" and "upsert": update_song_status(_sync)
StatusWritten(s) == [cat EXCEPT !.status = s]

\* es.index of the whole document: add_song_sync with the task's song_doc
SongDocIndexed == [status |-> "downloading", file_path |-> FALSE, download_count |-> 1]

\* variant: completed written without the storage location
CompletedWithoutPath ==
    IF cat.status = "none" THEN cat ELSE [cat EXCEPT !.status = "completed"]

\* es.update with "doc" only: fails (and is swallowed) when the document is missing
CompletedWritten ==
    IF cat.status = "none" THEN cat
    ELSE [cat EXCEPT !.status = "completed", !.file_path = TRUE]

\* variant: the counter left as it is
CountUntouched == cat

\* the painless script of update_download_count / increment_download_count_sync
CountIncremented ==
    IF cat.status = "none" THEN cat
    ELSE [cat EXCEPT !.download_count = @ + 1]

\* ---------------------------------------------------- the membership store
\* variant: the query finds no row
OwnsNever(u) == FALSE

\* db.query(UserLibrary).filter(user_id, spotify_id).first()
Owns(u) == library[u] > 0

\* variant: the table without its unique constraint
CommittedUnconstrained(u) == [library EXCEPT ![u] = @ + 1]

\* db.add(UserLibrary(user_id, spotify_id)); db.commit() under the constraint
\* unique_user_song: a second row of the same user and id is refused
Committed(u) == IF Owns(u) THEN library ELSE [library EXCEPT ![u] = @ + 1]

\* ------------------------------------------------------------- job helpers
DsBody == {"d_touch", "d_poll", "d_exists", "d_cleanup", "d_setdl", "d_meta",
           "d_search", "d_fetch", "d_move", "d_complete", "d_fail"}
DsPcs == DsBody \cup {"d_finally"}

\* the job is in flight: between its successful touch and its release of the
\* lock (the unlink of the already-exists path or of the finally block)
Holding(j) == acquired[j] = "won"

\* history of the status writes a job makes while it does not hold the lock
NoteWrite(j, s) ==
    wroteUnlocked' = IF Holding(j) THEN wroteUnlocked ELSE wroteUnlocked \cup {s}

\* a server with no request_download call in progress and no response yet
NoHandler == [step |-> "idle", u |-> "none", branch |-> "none", status |-> "none"]

CoreInitFor(id) ==
    /\ spotify_id = id
    /\ library = [u \in Users |-> 0]
    /\ cat = NoDoc
    /\ age = 0
    /\ fileOnDisk = FALSE
    /\ lock = FALSE
    /\ pc = [j \in Users |-> "none"]
    /\ acquired = [j \in Users |-> "no"]
    /\ polls = [j \in Users |-> 0]
    /\ retries = [j \in Users |-> 0]
    /\ countdown = [j \in Users |-> 0]
    /\ ret = [j \in Users |-> FALSE]
    /\ outcome = [j \in Users |-> "none"]
    /\ sweep = "idle"
    /\ fetched = {}
    /\ extFailed = FALSE
    /\ wroteUnlocked = {}
    /\ transferFailed = {}
    /\ handler = [s \in Servers |-> NoHandler]

CoreInit == CoreInitFor("wellformed")

\* ------------------------------------------------------------------ intake
\* POST /search/download/{spotify_id} by user u.  The handler has no real
\* suspension point (the awaited service methods call the blocking client), so
\* it runs as one step of the event loop.
request_download(u) ==
    /\ UNCHANGED <<spotify_id, countdown, rlVars, handler, transferFailed>>
    /\ UNCHANGED <<age, fileOnDisk, lock, acquired, polls, retries, ret, outcome,
                   sweep, fetched, extFailed, wroteUnlocked>>
    /\ IF Owns(u)
       THEN \* already_owned
            UNCHANGED <<library, cat, pc>>
       ELSE IF cat.status = "completed"
       THEN \* instant_add
            /\ library' = Committed(u)
            /\ cat' = CountIncremented
            /\ UNCHANGED pc
       ELSE IF cat.status \in {"pending", "downloading"}
       THEN \* "downloading": the row is added, nothing is queued
            /\ library' = Committed(u)
            /\ UNCHANGED <<cat, pc>>
       ELSE \* "queued": the row is added and download_song.delay is called
            /\ library' = Committed(u)
            /\ pc' = [pc EXCEPT ![u] = "queued"]
            /\ UNCHANGED cat

\* --------------------------------- intake on several server processes
\* The same handler when the API runs as several server processes: the calls
\* of two servers interleave at each access to a store.  The users that send
\* requests in this setting:
Requesters == {"u1", "u2"}

\* the call has its response; "error" is the 500 of an unhandled exception
Returning(status) ==
    [step |-> "h_return", u |-> "none", branch |-> "none", status |-> status]

\* Step 1: the query of the user's library row
HandlerLibrary(s, u) ==
    /\ UNCHANGED <<spotify_id, countdown, rlVars>>
    /\ handler[s].step = "idle"
    /\ handler' = [handler EXCEPT ![s] =
                      IF Owns(u)
                      THEN Returning("already_owned")
                      ELSE [step |-> "h_get", u |-> u, branch |-> "none",
                            status |-> "none"]]
    /\ UNCHANGED <<library, cat, age, fileOnDisk, lock, pc, acquired, polls,
                   retries, ret, outcome, sweep, fetched, extFailed, wroteUnlocked,
                   transferFailed>>

\* Step 2: existing_song = await es_service.get_song(spotify_id), and the
\* branch the handler takes on what it read
HandlerGetSong(s) ==
    /\ UNCHANGED <<spotify_id, countdown, rlVars>>
    /\ handler[s].step = "h_get"
    /\ handler' = [handler EXCEPT ![s] =
                      IF cat.status = "completed"
                      THEN [@ EXCEPT !.step = "h_count", !.branch = "instant_add"]
                      ELSE IF cat.status \in {"pending", "downloading"}
                      THEN [@ EXCEPT !.step = "h_commit", !.branch = "downloading"]
                      ELSE [@ EXCEPT !.step = "h_commit", !.branch = "queued"]]
    /\ UNCHANGED <<library, cat, age, fileOnDisk, lock, pc, acquired, polls,
                   retries, ret, outcome, sweep, fetched, extFailed, wroteUnlocked,
                   transferFailed>>

\* instant_add: await es_service.update_download_count(spotify_id)
HandlerCount(s) ==
    /\ UNCHANGED <<spotify_id, countdown, rlVars>>
    /\ handler[s].step = "h_count"
    /\ cat' = CountIncremented
    /\ handler' = [handler EXCEPT ![s].step = "h_commit"]
    /\ UNCHANGED <<library, age, fileOnDisk, lock, pc, acquired, polls,
                   retries, ret, outcome, sweep, fetched, extFailed, wroteUnlocked,
                   transferFailed>>

\* db.commit() of the new row; in the last branch download_song.delay follows.
\* A commit the unique constraint refuses raises, and the call ends in an error
HandlerCommit(s) ==
    /\ UNCHANGED <<spotify_id, countdown, rlVars>>
    /\ handler[s].step = "h_commit"
    /\ library' = Committed(handler[s].u)
    /\ LET u == handler[s].u
       IN  IF library' = library
           THEN /\ handler' = [handler EXCEPT ![s] = Returning("error")]
                /\ UNCHANGED pc
           ELSE /\ handler' = [handler EXCEPT ![s] = Returning(handler[s].branch)]
                /\ pc' = IF handler[s].branch = "queued"
                         THEN [pc EXCEPT ![u] = "queued"]
                         ELSE pc
    /\ UNCHANGED <<cat, age, fileOnDisk, lock, acquired, polls,
                   retries, ret, outcome, sweep, fetched, extFailed, wroteUnlocked,
                   transferFailed>>

\* the response is sent and the call is over
HandlerReturn(s) ==
    /\ UNCHANGED <<spotify_id, countdown, rlVars>>
    /\ handler[s].step = "h_return"
    /\ handler' = [handler EXCEPT ![s] = NoHandler]
    /\ UNCHANGED <<library, cat, age, fileOnDisk, lock, pc, acquired, polls,
                   retries, ret, outcome, sweep, fetched, extFailed, wroteUnlocked,
                   transferFailed>>

\* ---------------------------------------------------- the task download_song
\* variant: the task without its already-completed branch
TaskBranchAlwaysDownloads ==
    IF cat.status = "none" THEN "t_meta" ELSE "t_setdl"

\* the branch the task takes on the document it read
TaskBranch ==
    IF cat.status = "completed" THEN "t_fast"
    ELSE IF cat.status = "none" THEN "t_meta"
    ELSE "t_setdl"

\* Step 1: existing_song = es_service.get_song_sync(spotify_id)
TaskStart(j) ==
    /\ UNCHANGED <<spotify_id, countdown, rlVars, handler, transferFailed>>
    /\ pc[j] = "queued"
    /\ pc' = [pc EXCEPT ![j] = TaskBranch]
    /\ UNCHANGED <<library, cat, age, fileOnDisk, lock, acquired, polls, retries,
                   ret, outcome, sweep, fetched, extFailed, wroteUnlocked>>

\* the already-completed fast path: library row if absent, then the counter
TaskFastPath(j) ==
    /\ UNCHANGED <<spotify_id, countdown, rlVars, handler, transferFailed>>
    /\ pc[j] = "t_fast"
    /\ IF Owns(j)
       THEN UNCHANGED <<library, cat, age>>
       ELSE /\ library' = Committed(j)
            /\ cat' = CountIncremented
            /\ age' = IF cat.status = "none" THEN age ELSE 0
    /\ pc' = [pc EXCEPT ![j] = "done"]
    /\ outcome' = [outcome EXCEPT ![j] = "completed"]
    /\ UNCHANGED <<fileOnDisk, lock, acquired, polls, retries, ret, sweep,
                   fetched, extFailed, wroteUnlocked>>

\* Step 2, no document: spotify_service.get_track_sync and the album artwork;
\* a failure raises into the task's except block
TaskMetadata(j) ==
    /\ UNCHANGED <<spotify_id, countdown, rlVars, handler, transferFailed>>
    /\ pc[j] = "t_meta"
    /\ \E ok \in LookupOutcomes :
          /\ pc' = [pc EXCEPT ![j] = IF ok THEN "t_add" ELSE "t_exc"]
          /\ extFailed' = (extFailed \/ ~ok)
    /\ UNCHANGED <<library, cat, age, fileOnDisk, lock, acquired, polls, retries,
                   ret, outcome, sweep, fetched, wroteUnlocked>>

\* Step 2, no document: es_service.add_song_sync(song_doc)
TaskAddSong(j) ==
    /\ UNCHANGED <<spotify_id, countdown, rlVars, handler, transferFailed>>
    /\ pc[j] = "t_add"
    /\ cat' = SongDocIndexed
    /\ age' = 0
    /\ NoteWrite(j, "downloading")
    /\ pc' = [pc EXCEPT ![j] = "d_touch"]
    /\ UNCHANGED <<library, fileOnDisk, lock, acquired, polls, retries, ret,
                   outcome, sweep, fetched, extFailed>>

\* Step 2, document present: update_song_status_sync(spotify_id, "downloading")
TaskSetDownloading(j) ==
    /\ UNCHANGED <<spotify_id, countdown, rlVars, handler, transferFailed>>
    /\ pc[j] = "t_setdl"
    /\ cat' = StatusWritten("downloading")
    /\ age' = 0
    /\ NoteWrite(j, "downloading")
    /\ pc' = [pc EXCEPT ![j] = "d_touch"]
    /\ UNCHANGED <<library, fileOnDisk, lock, acquired, polls, retries, ret,
                   outcome, sweep, fetched, extFailed>>

\* variant: a countdown that grows by a minute per retry
BackoffLinear(r) == 60 * (r + 1)

\* countdown = 60 * (2 ** self.request.retries)
Backoff(r) == 60 * (2 ^ r)

\* except Exception: status failed, then self.retry while retries < max_retries
TaskExcept(j) ==
    /\ UNCHANGED <<spotify_id, rlVars, handler, transferFailed>>
    /\ pc[j] = "t_exc"
    /\ cat' = StatusWritten("failed")
    /\ age' = 0
    /\ NoteWrite(j, "failed")
    /\ IF retries[j] < max_retries
       THEN /\ retries' = [retries EXCEPT ![j] = @ + 1]
            /\ countdown' = [countdown EXCEPT ![j] = Backoff(retries[j])]
            /\ pc' = [pc EXCEPT ![j] = "queued"]
            /\ UNCHANGED outcome
       ELSE /\ pc' = [pc EXCEPT ![j] = "done"]
            /\ outcome' = [outcome EXCEPT ![j] = "error"]
            /\ UNCHANGED <<retries, countdown>>
    /\ UNCHANGED <<library, fileOnDisk, lock, acquired, polls, ret, sweep,
                   fetched, extFailed>>

\* Step 4 / the else branch: the catalog write that follows download_song_sync
TaskResult(j) ==
    /\ UNCHANGED <<spotify_id, countdown, rlVars, handler>>
    /\ transferFailed' = transferFailed \ {j}
    /\ pc[j] = "t_result"
    /\ IF ret[j]
       THEN /\ cat' = CompletedWritten
            /\ age' = IF cat.status = "none" THEN age ELSE 0
            /\ NoteWrite(j, "completed")
            /\ pc' = [pc EXCEPT ![j] = "t_register"]
            /\ UNCHANGED outcome
       ELSE /\ cat' = StatusWritten("failed")
            /\ age' = 0
            /\ NoteWrite(j, "failed")
            /\ pc' = [pc EXCEPT ![j] = "done"]
            /\ outcome' = [outcome EXCEPT ![j] = "failed"]
    /\ UNCHANGED <<library, fileOnDisk, lock, acquired, polls, retries, ret,
                   sweep, fetched, extFailed>>

\* Step 5: the requesting user's library row, if absent
TaskRegister(j) ==
    /\ UNCHANGED <<spotify_id, countdown, rlVars, handler, transferFailed>>
    /\ pc[j] = "t_register"
    /\ library' = (IF Owns(j) THEN library ELSE Committed(j))
    /\ pc' = [pc EXCEPT ![j] = "done"]
    /\ outcome' = [outcome EXCEPT ![j] = "completed"]
    /\ UNCHANGED <<cat, age, fileOnDisk, lock, acquired, polls, retries, ret,
                   sweep, fetched, extFailed, wroteUnlocked>>

\* the membership store is unreachable: the library query of the fast path or
\* of step 5 raises, and the exception reaches the task's except block
DbError(j) ==
    /\ UNCHANGED <<spotify_id, countdown, rlVars, handler, transferFailed>>
    /\ pc[j] \in {"t_fast", "t_register"}
    /\ pc' = [pc EXCEPT ![j] = "t_exc"]
    /\ extFailed' = TRUE
    /\ UNCHANGED <<library, cat, age, fileOnDisk, lock, acquired, polls, retries,
                   ret, outcome, sweep, fetched, wroteUnlocked>>

\* --------------------------------------- DownloadService.download_song
\* variant: a failure return leaves download_song without the finally block
ReturnSkippingFinally(j, value) ==
    /\ pc' = [pc EXCEPT ![j] = IF value THEN "d_finally" ELSE "t_result"]
    /\ ret' = [ret EXCEPT ![j] = value]

\* a return statement inside the try block: control passes to the finally block
Return(j, value) ==
    /\ pc' = [pc EXCEPT ![j] = "d_finally"]
    /\ ret' = [ret EXCEPT ![j] = value]

\* variant: unlink without missing_ok raises FileNotFoundError on no file
UnlinkStrict(exists) == [lock |-> FALSE, raised |-> ~exists]

\* lock_path.unlink(missing_ok=True): the file is gone, and nothing is raised
\* whether or not it was there
Unlink(exists) == [lock |-> FALSE, raised |-> FALSE]

\* lock_path.touch(exist_ok=False)
DsTouch(j) ==
    /\ UNCHANGED <<spotify_id, countdown, rlVars, handler, transferFailed>>
    /\ pc[j] = "d_touch"
    /\ IF lock
       THEN \* FileExistsError
            /\ acquired' = [acquired EXCEPT ![j] = "lost"]
            /\ pc' = [pc EXCEPT ![j] = "d_poll"]
            /\ UNCHANGED lock
       ELSE /\ lock' = TRUE
            /\ acquired' = [acquired EXCEPT ![j] = "won"]
            /\ pc' = [pc EXCEPT ![j] = "d_exists"]
    /\ UNCHANGED <<library, cat, age, fileOnDisk, polls, retries, ret, outcome,
                   sweep, fetched, extFailed, wroteUnlocked>>

\* the wait loop: for _ in range(30): asyncio.sleep(1); song_exists.  A round
\* that finds nothing changes only the loop counter, so the rounds are taken
\* together: the round that finds the song returns True, and the 30 rounds
\* that find nothing return False.
DsPoll(j) ==
    /\ UNCHANGED <<spotify_id, countdown, rlVars, handler, transferFailed>>
    /\ pc[j] = "d_poll"
    /\ IF SongExists
       THEN /\ polls' = [polls EXCEPT ![j] = @ + 1]
            /\ Return(j, TRUE)
       ELSE /\ polls' = [polls EXCEPT ![j] = PollAttempts]
            /\ Return(j, FALSE)
    /\ UNCHANGED <<library, cat, age, fileOnDisk, lock, acquired, retries,
                   outcome, sweep, fetched, extFailed, wroteUnlocked>>

\* one round of the wait loop: asyncio.sleep(1), then song_exists; True on a
\* hit, and False once range(30) is used up
DsPollRound(j) ==
    /\ UNCHANGED <<spotify_id, countdown, rlVars, handler, transferFailed>>
    /\ pc[j] = "d_poll"
    /\ polls' = [polls EXCEPT ![j] = @ + 1]
    /\ IF SongExists THEN Return(j, TRUE)
       ELSE IF polls'[j] >= PollAttempts THEN Return(j, FALSE)
       ELSE UNCHANGED <<pc, ret>>
    /\ UNCHANGED <<library, cat, age, fileOnDisk, lock, acquired, retries,
                   outcome, sweep, fetched, extFailed, wroteUnlocked>>

\* the double-check after the lock was taken: song_exists
DsDoubleCheck(j) ==
    /\ UNCHANGED <<spotify_id, countdown, rlVars, handler, transferFailed>>
    /\ pc[j] = "d_exists"
    /\ pc' = [pc EXCEPT ![j] = IF SongExists THEN "d_cleanup" ELSE "d_setdl"]
    /\ UNCHANGED <<library, cat, age, fileOnDisk, lock, acquired, polls, retries,
                   ret, outcome, sweep, fetched, extFailed, wroteUnlocked>>

\* already exists: lock_path.unlink(missing_ok=True); return True.  An
\* exception raised here is caught by the except block at the bottom
DsCleanup(j) ==
    /\ UNCHANGED <<spotify_id, countdown, rlVars, handler, transferFailed>>
    /\ pc[j] = "d_cleanup"
    /\ lock' = Unlink(lock).lock
    /\ acquired' = [acquired EXCEPT ![j] = "released"]
    /\ IF Unlink(lock).raised
       THEN pc' = [pc EXCEPT ![j] = "d_fail"] /\ UNCHANGED ret
       ELSE Return(j, TRUE)
    /\ UNCHANGED <<library, cat, age, fileOnDisk, polls, retries,
                   outcome, sweep, fetched, extFailed, wroteUnlocked>>

\* update_song_status(spotify_id, "downloading")
DsSetDownloading(j) ==
    /\ UNCHANGED <<spotify_id, countdown, rlVars, handler, transferFailed>>
    /\ pc[j] = "d_setdl"
    /\ cat' = StatusWritten("downloading")
    /\ age' = 0
    /\ NoteWrite(j, "downloading")
    /\ pc' = [pc EXCEPT ![j] = "d_meta"]
    /\ UNCHANGED <<library, fileOnDisk, lock, acquired, polls, retries, ret,
                   outcome, sweep, fetched, extFailed>>

\* spotify_service.get_track: no details, or an exception caught at the bottom
DsMetadata(j) ==
    /\ UNCHANGED <<spotify_id, countdown, rlVars, handler, transferFailed>>
    /\ pc[j] = "d_meta"
    /\ \E ok \in LookupOutcomes :
          /\ pc' = [pc EXCEPT ![j] = IF ok THEN "d_search" ELSE "d_fail"]
          /\ extFailed' = (extFailed \/ ~ok)
    /\ UNCHANGED <<library, cat, age, fileOnDisk, lock, acquired, polls, retries,
                   ret, outcome, sweep, fetched, wroteUnlocked>>

\* _search_youtube: a url, or None
DsSearch(j) ==
    /\ UNCHANGED <<spotify_id, countdown, rlVars, handler, transferFailed>>
    /\ pc[j] = "d_search"
    /\ \E ok \in BOOLEAN :
          /\ pc' = [pc EXCEPT ![j] = IF ok THEN "d_fetch" ELSE "d_fail"]
          /\ extFailed' = (extFailed \/ ~ok)
    /\ UNCHANGED <<library, cat, age, fileOnDisk, lock, acquired, polls, retries,
                   ret, outcome, sweep, fetched, wroteUnlocked>>

\* _download_audio: the fetch from the media source into the temporary path
DsFetch(j) ==
    /\ UNCHANGED <<spotify_id, countdown, rlVars, handler>>
    /\ pc[j] = "d_fetch"
    /\ fetched' = fetched \cup {j}
    /\ \E ok \in BOOLEAN :
          /\ pc' = [pc EXCEPT ![j] = IF ok THEN "d_move" ELSE "d_fail"]
          /\ extFailed' = (extFailed \/ ~ok)
          /\ transferFailed' = IF ok THEN transferFailed ELSE transferFailed \cup {j}
    /\ UNCHANGED <<library, cat, age, fileOnDisk, lock, acquired, polls, retries,
                   ret, outcome, sweep, wroteUnlocked>>

\* shutil.move of the temporary file to the final storage path
DsMove(j) ==
    /\ UNCHANGED <<spotify_id, countdown, rlVars, handler>>
    /\ pc[j] = "d_move"
    /\ \E ok \in BOOLEAN :
          /\ pc' = [pc EXCEPT ![j] = IF ok THEN "d_complete" ELSE "d_fail"]
          /\ fileOnDisk' = (fileOnDisk \/ ok)
          /\ extFailed' = (extFailed \/ ~ok)
          /\ transferFailed' = IF ok THEN transferFailed ELSE transferFailed \cup {j}
    /\ UNCHANGED <<library, cat, age, lock, acquired, polls, retries, ret,
                   outcome, sweep, fetched, wroteUnlocked>>

\* update_song with file_path and download_status completed; if it reports
\* failure the status is set to failed instead
DsComplete(j) ==
    /\ UNCHANGED <<spotify_id, countdown, rlVars, handler, transferFailed>>
    /\ pc[j] = "d_complete"
    /\ \/ /\ cat.status # "none"
          /\ cat' = CompletedWritten
          /\ age' = 0
          /\ NoteWrite(j, "completed")
          /\ Return(j, TRUE)
          /\ UNCHANGED extFailed
       \/ /\ pc' = [pc EXCEPT ![j] = "d_fail"]
          /\ extFailed' = TRUE
          /\ UNCHANGED <<cat, age, ret, wroteUnlocked>>
    /\ UNCHANGED <<library, fileOnDisk, lock, acquired, polls, retries, outcome,
                   sweep, fetched>>

\* update_song_status(spotify_id, "failed"); return False
DsFail(j) ==
    /\ UNCHANGED <<spotify_id, countdown, rlVars, handler, transferFailed>>
    /\ pc[j] = "d_fail"
    /\ cat' = StatusWritten("failed")
    /\ age' = 0
    /\ NoteWrite(j, "failed")
    /\ Return(j, FALSE)
    /\ UNCHANGED <<library, fileOnDisk, lock, acquired, polls, retries, outcome,
                   sweep, fetched, extFailed>>

\* finally: db.close(); lock_path.unlink(missing_ok=True); then back in the
\* task through download_song_sync, whose except block turns an exception
\* that left download_song into success False
DsFinally(j) ==
    /\ UNCHANGED <<spotify_id, countdown, rlVars, handler, transferFailed>>
    /\ pc[j] = "d_finally"
    /\ lock' = Unlink(lock).lock
    /\ acquired' = [acquired EXCEPT ![j] = IF @ = "won" THEN "released" ELSE @]
    /\ polls' = [polls EXCEPT ![j] = 0]
    /\ ret' = [ret EXCEPT ![j] = IF Unlink(lock).raised THEN FALSE ELSE @]
    /\ pc' = [pc EXCEPT ![j] = "t_result"]
    /\ UNCHANGED <<library, cat, age, fileOnDisk, retries,
                   outcome, sweep, fetched, extFailed, wroteUnlocked>>

\* the worker process of the job dies inside download_song: killed by
\* revoke(task_id, terminate=True), which discards the task, or lost, in
\* which case the message is not acknowledged (task_acks_late,
\* task_reject_on_worker_lost) and the task is delivered again.  No finally
\* block runs: a lock the job created stays on disk.
Crash(j) ==
    /\ UNCHANGED <<spotify_id, countdown, rlVars, handler, transferFailed>>
    /\ pc[j] \in DsPcs
    /\ \E redelivered \in BOOLEAN :
          pc' = [pc EXCEPT ![j] = IF redelivered THEN "queued" ELSE "revoked"]
    /\ acquired' = [acquired EXCEPT ![j] = IF @ = "won" THEN "orphaned" ELSE @]
    /\ polls' = [polls EXCEPT ![j] = 0]
    /\ UNCHANGED <<library, cat, age, fileOnDisk, lock, retries, ret,
                   outcome, sweep, fetched, extFailed, wroteUnlocked>>

\* ------------------------------------------- cleanup_failed_downloads
Stale == age * TickMinutes > StaleMinutes

\* time passes.  updated_at is read only by the reclaimer's query, which
\* matches documents with status downloading, and every write of that status
\* sets updated_at, so the age is tracked while the status is downloading.
Tick ==
    /\ UNCHANGED <<spotify_id, countdown, rlVars, handler, transferFailed>>
    /\ cat.status = "downloading"
    /\ age < MaxAgeTicks
    /\ age' = age + 1
    /\ UNCHANGED <<library, cat, fileOnDisk, lock, pc, acquired, polls, retries,
                   ret, outcome, sweep, fetched, extFailed, wroteUnlocked>>

\* search_raw_sync: documents with status downloading and updated_at < cutoff
SweepQuery ==
    /\ UNCHANGED <<spotify_id, countdown, rlVars, handler, transferFailed>>
    /\ sweep = "idle"
    /\ sweep' = IF cat.status = "downloading" /\ Stale THEN "hit" ELSE "idle"
    /\ UNCHANGED <<library, cat, age, fileOnDisk, lock, pc, acquired, polls,
                   retries, ret, outcome, fetched, extFailed, wroteUnlocked>>

\* for hit in stuck_songs: update_song_status_sync(spotify_id, "pending")
SweepReset ==
    /\ UNCHANGED <<spotify_id, countdown, rlVars, handler, transferFailed>>
    /\ sweep = "hit"
    /\ cat' = StatusWritten("pending")
    /\ age' = 0
    /\ sweep' = "idle"
    /\ UNCHANGED <<library, fileOnDisk, lock, pc, acquired, polls, retries, ret,
                   outcome, fetched, extFailed, wroteUnlocked>>

\* ------------------------------------------------- RateLimitMiddleware
\* the static table of _get_rate_limit_config, in the order of the dict; a
\* path is the sequence of its segments
rate_limits ==
    << [pattern |-> <<"api", "v1", "search">>, requests |-> 60, window |-> 60],
       [pattern |-> <<"api", "v1", "download">>, requests |-> 10, window |-> 60],
       [pattern |-> <<"api", "v1", "auth", "login">>, requests |-> 5, window |-> 300],
       [pattern |-> <<"api", "v1", "auth", "register">>, requests |-> 3, window |-> 3600] >>

NoConfig == [pattern |-> <<>>, requests |-> -1, window |-> -1]

\* endpoint.startswith(pattern)
StartsWith(endpoint, pattern) ==
    /\ Len(pattern) <= Len(endpoint)
    /\ SubSeq(endpoint, 1, Len(pattern)) = pattern

\* variant: a path that matches no pattern gets the first entry of the table
get_rate_limit_config_default(endpoint) ==
    LET hits == {i \in 1..Len(rate_limits) : StartsWith(endpoint, rate_limits[i].pattern)}
    IN  IF hits = {} THEN rate_limits[1]
        ELSE rate_limits[CHOOSE i \in hits : \A k \in hits : i <= k]

\* the first pattern of the table the path starts with, or None
get_rate_limit_config(endpoint) ==
    LET hits == {i \in 1..Len(rate_limits) : StartsWith(endpoint, rate_limits[i].pattern)}
    IN  IF hits = {} THEN NoConfig
        ELSE rate_limits[CHOOSE i \in hits : \A k \in hits : i <= k]

\* the paths the throttled client requests
RlPaths == {<<"api", "v1", "auth", "register">>}

\* request paths under each pattern of the table, and under none of them
TablePaths ==
    {<<"api", "v1", "search", "spotify">>,
     <<"api", "v1", "download", "x">>,
     <<"api", "v1", "auth", "login">>,
     <<"api", "v1", "auth", "register">>,
     <<"api", "v1", "auth">>,
     <<"api", "search", "download", "x">>,
     <<"health">>}

\* the paths of one endpoint class the client moves between
ClassPaths == {<<"api", "v1", "auth", "register">>,
               <<"api", "v1", "auth", "register", "">>}

NoReq == [path |-> <<>>, ts |-> -1, at |-> -1, held |-> -1]

Limit == get_rate_limit_config(rlPath).requests
Window == get_rate_limit_config(rlPath).window

\* key = f"rate_limit:{client_id}:{endpoint}": for the one client, the keys
\* are told apart by the endpoint, which is the whole path of the request
Key(endpoint) == endpoint

\* the sorted set as Redis serves it: no key before the first zadd, and the
\* key is gone once its TTL has run out
KeyLive(key) ==
    IF key \notin DOMAIN zset \/ rlNow >= expireAt[key] THEN {} ELSE zset[key]

\* zremrangebyscore(key, 0, window_start)
AfterRemove(members, window_start) ==
    {m \in members : ~(0 <= m /\ m <= window_start)}

\* zadd(key, {str(current_time): current_time}): the member is the second itself
AfterAdd(members, current_time) == members \cup {current_time}

\* results[1] < config['requests']
WithinLimit(current_requests, config) == current_requests < config.requests

\* dispatch: 429 with retry_after when the check fails, else call_next
Response(allowed, config) ==
    IF allowed THEN [status_code |-> 200, retry_after |-> 0]
    ELSE [status_code |-> 429, retry_after |-> config.window]

InFlightChecks == {w \in Servers : rlReq[w] # NoReq}

NoCheck == [w |-> "none", ts |-> -1, at |-> -1, held |-> -1, seen |-> -1,
            status_code |-> 0, retry_after |-> 0, raised |-> FALSE]

\* except Exception in _check_rate_limit: variant that denies the request
CheckRaisedDenied(config) == Response(FALSE, config)

\* except Exception in _check_rate_limit: return True, so dispatch calls call_next
CheckRaised(config) == Response(TRUE, config)

RlInitStore(path) ==
    /\ rlPath = path
    /\ rlNow = 0
    /\ zset = <<>>
    /\ expireAt = <<>>
    /\ rlReq = [w \in Servers |-> NoReq]
    /\ rlChecks = 0
    /\ rlFirst = -1
    /\ rlPrev = NoCheck
    /\ rlLast = NoCheck
    /\ rlAllowed = <<>>
    /\ rlOverlapped = FALSE
    /\ rlAdvances = 0

RlInit(path) ==
    /\ redis_client = [w \in Servers |-> TRUE]
    /\ RlInitStore(path)

\* some servers failed to connect in __init__ (from_url or ping raised)
RlInitDegraded(path) ==
    /\ redis_client \in [Servers -> BOOLEAN]
    /\ RlInitStore(path)

\* _check_rate_limit up to the pipeline: current_time = int(time.time())
RlBegin(w) ==
    /\ UNCHANGED coreVars
    /\ redis_client[w]
    /\ get_rate_limit_config(rlPath) # NoConfig
    /\ rlReq[w] = NoReq
    /\ rlChecks + Cardinality(InFlightChecks) < MaxChecks
    /\ rlReq' = [rlReq EXCEPT ![w] =
                    [path |-> rlPath, ts |-> rlNow, at |-> rlChecks,
                     held |-> Cardinality(AfterRemove(KeyLive(Key(rlPath)),
                                                      rlNow - Window))]]
    /\ rlOverlapped' = (rlOverlapped \/ InFlightChecks # {})
    /\ UNCHANGED <<rlPath, rlNow, zset, expireAt, rlChecks, rlFirst, rlPrev, rlLast,
                   rlAllowed, rlAdvances, redis_client>>

\* pipe.execute(): zremrangebyscore, zcard, zadd, expire as one MULTI/EXEC
\* transaction, then the comparison and the response of dispatch
RlExecute(w) ==
    /\ UNCHANGED coreVars
    /\ rlReq[w] # NoReq
    /\ LET config == get_rate_limit_config(rlReq[w].path)
           key == Key(rlReq[w].path)
           current_time == rlReq[w].ts
           kept == AfterRemove(KeyLive(key), current_time - config.window)
           current_requests == Cardinality(kept)
           allowed == WithinLimit(current_requests, config)
           resp == Response(allowed, config)
       IN  /\ zset' = (key :> AfterAdd(kept, current_time)) @@ zset
           /\ expireAt' = (key :> rlNow + config.window) @@ expireAt
           /\ rlLast' = [w |-> w, ts |-> current_time, at |-> rlReq[w].at,
                         held |-> rlReq[w].held, seen |-> current_requests,
                         status_code |-> resp.status_code,
                         retry_after |-> resp.retry_after, raised |-> FALSE]
           /\ rlAllowed' =
                 IF ~allowed THEN rlAllowed
                 ELSE IF current_time \in DOMAIN rlAllowed
                 THEN [rlAllowed EXCEPT ![current_time] = @ + 1]
                 ELSE rlAllowed @@ (current_time :> 1)
    /\ rlPrev' = rlLast
    /\ rlChecks' = rlChecks + 1
    /\ rlFirst' = IF rlFirst = -1 THEN rlReq[w].ts ELSE rlFirst
    /\ rlReq' = [rlReq EXCEPT ![w] = NoReq]
    /\ UNCHANGED <<rlPath, rlNow, rlOverlapped, rlAdvances, redis_client>>

\* a store operation raises (connection lost, timeout): the except block
\* returns True.  The transaction may or may not have been applied.
RlRaise(w) ==
    /\ UNCHANGED coreVars
    /\ rlReq[w] # NoReq
    /\ LET config == get_rate_limit_config(rlReq[w].path)
           key == Key(rlReq[w].path)
           current_time == rlReq[w].ts
           kept == AfterRemove(KeyLive(key), current_time - config.window)
           resp == CheckRaised(config)
       IN  /\ \/ /\ zset' = (key :> AfterAdd(kept, current_time)) @@ zset
                 /\ expireAt' = (key :> rlNow + config.window) @@ expireAt
              \/ UNCHANGED <<zset, expireAt>>
           /\ rlLast' = [w |-> w, ts |-> current_time, at |-> rlReq[w].at,
                         held |-> rlReq[w].held, seen |-> -1,
                         status_code |-> resp.status_code,
                         retry_after |-> resp.retry_after, raised |-> TRUE]
           /\ rlAllowed' =
                 IF resp.status_code # 200 THEN rlAllowed
                 ELSE IF current_time \in DOMAIN rlAllowed
                 THEN [rlAllowed EXCEPT ![current_time] = @ + 1]
                 ELSE rlAllowed @@ (current_time :> 1)
    /\ rlPrev' = rlLast
    /\ rlChecks' = rlChecks + 1
    /\ rlFirst' = IF rlFirst = -1 THEN rlReq[w].ts ELSE rlFirst
    /\ rlReq' = [rlReq EXCEPT ![w] = NoReq]
    /\ UNCHANGED <<rlPath, rlNow, rlOverlapped, rlAdvances, redis_client>>

\* dispatch on a server whose redis_client is None: call_next at once
RlPass(w) ==
    /\ UNCHANGED coreVars
    /\ ~redis_client[w]
    /\ rlChecks + Cardinality(InFlightChecks) < MaxChecks
    /\ rlLast' = [w |-> w, ts |-> rlNow, at |-> rlChecks,
                  held |-> Cardinality(AfterRemove(KeyLive(Key(rlPath)), rlNow - Window)),
                  seen |-> -1, status_code |-> 200, retry_after |-> 0,
                  raised |-> FALSE]
    /\ rlAllowed' = IF rlNow \in DOMAIN rlAllowed
                    THEN [rlAllowed EXCEPT ![rlNow] = @ + 1]
                    ELSE rlAllowed @@ (rlNow :> 1)
    /\ rlPrev' = rlLast
    /\ rlChecks' = rlChecks + 1
    /\ rlFirst' = IF rlFirst = -1 THEN rlNow ELSE rlFirst
    /\ UNCHANGED <<rlPath, rlNow, zset, expireAt, rlReq, rlOverlapped, rlAdvances,
                   redis_client>>

\* dispatch for a path no pattern matches: if not rate_limit_config, call_next
RlUnthrottled(w) ==
    /\ UNCHANGED coreVars
    /\ redis_client[w]
    /\ get_rate_limit_config(rlPath) = NoConfig
    /\ rlChecks + Cardinality(InFlightChecks) < MaxChecks
    /\ rlLast' = [w |-> w, ts |-> rlNow, at |-> rlChecks, held |-> 0,
                  seen |-> -1, status_code |-> 200, retry_after |-> 0,
                  raised |-> FALSE]
    /\ rlAllowed' = IF rlNow \in DOMAIN rlAllowed
                    THEN [rlAllowed EXCEPT ![rlNow] = @ + 1]
                    ELSE rlAllowed @@ (rlNow :> 1)
    /\ rlPrev' = rlLast
    /\ rlChecks' = rlChecks + 1
    /\ rlFirst' = IF rlFirst = -1 THEN rlNow ELSE rlFirst
    /\ UNCHANGED <<rlPath, rlNow, zset, expireAt, rlReq, rlOverlapped, rlAdvances,
                   redis_client>>

\* the clock advances by d seconds; a check in flight lasts less than a
\* window, so only single seconds pass while one is in flight
RlAdvance(d) ==
    /\ UNCHANGED coreVars
    /\ rlAdvances < MaxAdvances
    /\ d > 1 => InFlightChecks = {}
    /\ rlNow' = rlNow + d
    /\ rlAdvances' = rlAdvances + 1
    /\ UNCHANGED <<rlPath, zset, expireAt, rlReq, rlChecks, rlFirst, rlPrev, rlLast,
                   rlAllowed, rlOverlapped, redis_client>>

\* the client's next request goes to another path of the same endpoint class
RlSwitch(path) ==
    /\ UNCHANGED coreVars
    /\ path # rlPath
    /\ get_rate_limit_config(path) = get_rate_limit_config(rlPath)
    /\ rlPath' = path
    /\ UNCHANGED <<rlNow, zset, expireAt, rlReq, rlChecks, rlFirst, rlPrev, rlLast,
                   rlAllowed, rlOverlapped, rlAdvances, redis_client>>

\* ------------------------------------------------------------ specification
Init == CoreInit /\ RlInit(<<"api", "v1", "auth", "register">>)

Next ==
    \/ \E u \in Users : request_download(u)
    \/ \E j \in Users : TaskStart(j)
    \/ \E j \in Users : TaskFastPath(j)
    \/ \E j \in Users : TaskMetadata(j)
    \/ \E j \in Users : TaskAddSong(j)
    \/ \E j \in Users : TaskSetDownloading(j)
    \/ \E j \in Users : TaskExcept(j)
    \/ \E j \in Users : TaskResult(j)
    \/ \E j \in Users : TaskRegister(j)
    \/ \E j \in Users : DsTouch(j)
    \/ \E j \in Users : DsPoll(j)
    \/ \E j \in Users : DsDoubleCheck(j)
    \/ \E j \in Users : DsCleanup(j)
    \/ \E j \in Users : DsSetDownloading(j)
    \/ \E j \in Users : DsMetadata(j)
    \/ \E j \in Users : DsSearch(j)
    \/ \E j \in Users : DsFetch(j)
    \/ \E j \in Users : DsMove(j)
    \/ \E j \in Users : DsComplete(j)
    \/ \E j \in Users : DsFail(j)
    \/ \E j \in Users : DsFinally(j)
    \/ Tick
    \/ SweepQuery
    \/ SweepReset

Spec == Init /\ [][Next]_vars

\* the job path with intake served by several server processes, no reclaimer
JobNext ==
    \/ \E j \in Users : TaskStart(j)
    \/ \E j \in Users : TaskFastPath(j)
    \/ \E j \in Users : TaskMetadata(j)
    \/ \E j \in Users : TaskAddSong(j)
    \/ \E j \in Users : TaskSetDownloading(j)
    \/ \E j \in Users : TaskExcept(j)
    \/ \E j \in Users : TaskResult(j)
    \/ \E j \in Users : TaskRegister(j)
    \/ \E j \in Users : DsTouch(j)
    \/ \E j \in Users : DsPoll(j)
    \/ \E j \in Users : DsDoubleCheck(j)
    \/ \E j \in Users : DsCleanup(j)
    \/ \E j \in Users : DsSetDownloading(j)
    \/ \E j \in Users : DsMetadata(j)
    \/ \E j \in Users : DsSearch(j)
    \/ \E j \in Users : DsFetch(j)
    \/ \E j \in Users : DsMove(j)
    \/ \E j \in Users : DsComplete(j)
    \/ \E j \in Users : DsFail(j)
    \/ \E j \in Users : DsFinally(j)

NextIntake ==
    \/ \E s \in Servers, u \in Requesters : HandlerLibrary(s, u)
    \/ \E s \in Servers : HandlerGetSong(s)
    \/ \E s \in Servers : HandlerCount(s)
    \/ \E s \in Servers : HandlerCommit(s)
    \/ \E s \in Servers : HandlerReturn(s)
    \/ JobNext

SpecIntake == Init /\ [][NextIntake]_vars

\* the rate limiter alone, for a client that requests one of RlPaths
InitRL == CoreInit /\ \E path \in RlPaths : RlInit(path)

NextRL ==
    \/ \E w \in Servers : RlBegin(w)
    \/ \E w \in Servers : RlExecute(w)
    \/ \E d \in {1, Window - 1, Window} : RlAdvance(d)

SpecRL == InitRL /\ [][NextRL]_vars

\* the rate limiter with a store that may be unreachable or raise
InitRLDegraded == CoreInit /\ \E path \in RlPaths : RlInitDegraded(path)

NextRLDegraded ==
    \/ \E w \in Servers : RlBegin(w)
    \/ \E w \in Servers : RlExecute(w)
    \/ \E w \in Servers : RlRaise(w)
    \/ \E w \in Servers : RlPass(w)
    \/ RlAdvance(1)

SpecRLDegraded == InitRLDegraded /\ [][NextRLDegraded]_vars

\* the rate limiter for a client that moves between the paths of one class
NextRLPaths ==
    \/ \E w \in Servers : RlBegin(w)
    \/ \E w \in Servers : RlExecute(w)
    \/ \E path \in ClassPaths : RlSwitch(path)
    \/ RlAdvance(1)

SpecRLPaths == InitRL /\ [][NextRLPaths]_vars

\* requests that carry an id that is not of Spotify's form; the steps that
\* follow a successful metadata lookup are never reached
InitMalformed ==
    /\ \E id \in MalformedIds : CoreInitFor(id)
    /\ RlInit(<<"api", "v1", "auth", "register">>)

NextMalformed ==
    \/ \E s \in Servers, u \in Requesters : HandlerLibrary(s, u)
    \/ \E s \in Servers : HandlerGetSong(s)
    \/ \E s \in Servers : HandlerCommit(s)
    \/ \E s \in Servers : HandlerReturn(s)
    \/ \E j \in Users : TaskStart(j)
    \/ \E j \in Users : TaskMetadata(j)
    \/ \E j \in Users : TaskSetDownloading(j)
    \/ \E j \in Users : TaskExcept(j)
    \/ \E j \in Users : TaskResult(j)
    \/ \E j \in Users : DsTouch(j)
    \/ \E j \in Users : DsPoll(j)
    \/ \E j \in Users : DsDoubleCheck(j)
    \/ \E j \in Users : DsSetDownloading(j)
    \/ \E j \in Users : DsMetadata(j)
    \/ \E j \in Users : DsFail(j)
    \/ \E j \in Users : DsFinally(j)

SpecMalformed == InitMalformed /\ [][NextMalformed]_vars

\* one server process, the reclaimer on its schedule, and workers that can
\* die inside download_song.  Queued jobs are run and the periodic sweep
\* comes round; nothing obliges a user to send a request
NextCrash ==
    \/ \E u \in Requesters : request_download(u)
    \/ JobNext
    \/ \E j \in Users : Crash(j)
    \/ Tick
    \/ SweepQuery
    \/ SweepReset

SpecCrash ==
    /\ Init /\ [][NextCrash]_vars
    /\ WF_vars(JobNext) /\ WF_vars(SweepQuery) /\ WF_vars(SweepReset)

\* the rate limiter for a client that requests one of TablePaths
InitRLTable == CoreInit /\ \E path \in TablePaths : RlInit(path)

NextRLTable ==
    \/ \E w \in Servers : RlBegin(w)
    \/ \E w \in Servers : RlExecute(w)
    \/ \E w \in Servers : RlUnthrottled(w)
    \/ RlAdvance(1)

SpecRLTable == InitRLTable /\ [][NextRLTable]_vars

\* one server process and the jobs, with the wait loop taken round by round
NextPoll ==
    \/ \E u \in Requesters : request_download(u)
    \/ \E j \in Users : TaskStart(j)
    \/ \E j \in Users : TaskFastPath(j)
    \/ \E j \in Users : TaskMetadata(j)
    \/ \E j \in Users : TaskAddSong(j)
    \/ \E j \in Users : TaskSetDownloading(j)
    \/ \E j \in Users : TaskExcept(j)
    \/ \E j \in Users : TaskResult(j)
    \/ \E j \in Users : TaskRegister(j)
    \/ \E j \in Users : DsTouch(j)
    \/ \E j \in Users : DsPollRound(j)
    \/ \E j \in Users : DsDoubleCheck(j)
    \/ \E j \in Users : DsCleanup(j)
    \/ \E j \in Users : DsSetDownloading(j)
    \/ \E j \in Users : DsMetadata(j)
    \/ \E j \in Users : DsSearch(j)
    \/ \E j \in Users : DsFetch(j)
    \/ \E j \in Users : DsMove(j)
    \/ \E j \in Users : DsComplete(j)
    \/ \E j \in Users : DsFail(j)
    \/ \E j \in Users : DsFinally(j)

SpecPoll == Init /\ [][NextPoll]_vars

\* one server process and the jobs, with a membership store that can fail
NextStoreFailure ==
    \/ \E u \in Requesters : request_download(u)
    \/ JobNext
    \/ \E j \in Users : DbError(j)

SpecStoreFailure == Init /\ [][NextStoreFailure]_vars

\* ------------------------------------------------------------------ claims
InFlight == {j \in Users : Holding(j)}
Finished == \A j \in Users : pc[j] \in {"none", "done"}

\* C1: with no failure of an external call, at most one job ever reaches the
\* fetch step, and when every enqueued job has ended exactly one has.
C1_ExactlyOneFetch ==
    ~extFailed =>
        /\ Cardinality(fetched) <= 1
        /\ (Finished /\ (\E j \in Users : pc[j] = "done")) => Cardinality(fetched) = 1

\* C2: at every moment at most one job is between its successful lock
\* acquire and its release of the lock.
C2_AtMostOneInFlight == Cardinality(InFlight) <= 1

\* C3: every change of an existing entry's status is one of
\* pending->downloading, downloading->completed, downloading->failed,
\* failed->pending.
LegalTransitions == {<<"pending", "downloading">>, <<"downloading", "completed">>,
                     <<"downloading", "failed">>, <<"failed", "pending">>}
C3_LegalTransitions ==
    [][(cat.status # "none" /\ cat'.status # cat.status)
          => <<cat.status, cat'.status>> \in LegalTransitions]_vars

\* C4: once the entry is completed no step changes its status or removes its
\* storage location.
C4_CompletedIsTerminal ==
    [][cat.status = "completed"
          => (cat'.status = "completed" /\ cat'.file_path = cat.file_path)]_vars

\* C5: whenever a job that acquired the lock leaves download_song, by whatever
\* exit path, the lock is absent.
C5_LockReleasedOnReturn ==
    [][\A j \in Users :
          (pc[j] \in DsPcs /\ pc'[j] \notin DsPcs /\ acquired[j] \in {"won", "released"})
             => ~lock']_vars

\* C5 witness: a job that acquired the lock has returned False from
\* download_song (a failure path) and the lock is absent.
C5_Witness ==
    \E j \in Users :
        pc[j] = "t_result" /\ acquired[j] = "released" /\ ~ret[j] /\ ~lock

\* C6: a job whose lock acquire failed never ends with status failed (and so
\* never writes failed to the entry).
C6_ConflictIsNotFailure ==
    \A j \in Users : acquired[j] = "lost" => outcome[j] # "failed"

\* C7: every status a job writes is written while the job holds the lock.
C7_WritesUnderLock == wroteUnlocked = {}

\* number of allowed checks whose current_time lies in S
RECURSIVE AllowedIn(_)
AllowedIn(S) ==
    IF S = {} THEN 0
    ELSE LET t == CHOOSE x \in S : TRUE
         IN  rlAllowed[t] + AllowedIn(S \ {t})

\* C8: in every trailing window of Window seconds, (t - Window, t], at most
\* Limit checks were allowed, whatever their timestamps.
C8_WindowLimit ==
    \A t \in DOMAIN rlAllowed :
        AllowedIn({u \in DOMAIN rlAllowed : t - Window < u /\ u <= t}) <= Limit

\* C9: of two checks that ran concurrently (both began after the same
\* executed checks) while the window held Limit - 1 entries, at most one is
\* allowed.
C9_ConcurrentChecks ==
    (/\ rlPrev.w # "none" /\ rlLast.w # rlPrev.w
     /\ rlPrev.at = rlLast.at
     /\ rlPrev.held = Limit - 1 /\ rlLast.held = Limit - 1)
        => ~(rlPrev.status_code = 200 /\ rlLast.status_code = 200)

\* C10: of checks made one after the other, the first Limit within a window
\* are allowed, the next one within it is answered 429 with retry_after =
\* Window, and a check made Window seconds after the previous one is allowed.
C10_FirstAllowed ==
    (rlChecks <= Limit /\ rlLast.ts - rlFirst < Window) => rlLast.status_code = 200
C10_NextDenied ==
    (rlChecks = Limit + 1 /\ rlLast.ts - rlFirst < Window)
        => (rlLast.status_code = 429 /\ rlLast.retry_after = Window)
C10_AllowedAgain ==
    (rlChecks >= 2 /\ rlLast.ts - rlPrev.ts >= Window) => rlLast.status_code = 200
C10_Boundary ==
    (~rlOverlapped /\ InFlightChecks = {} /\ rlChecks >= 1)
        => (C10_FirstAllowed /\ C10_NextDenied /\ C10_AllowedAgain)

\* C11: a check on a server whose store client is None, or whose store
\* operation raised, is answered by passing the request on: never 429.
C11_FailOpen ==
    (rlLast.w # "none" /\ (rlLast.raised \/ ~redis_client[rlLast.w]))
        => (rlLast.status_code = 200 /\ rlLast.retry_after = 0)

\* C11 witness: the store raised during a check made while the window
\* already held Limit entries, and the request was passed on.
C11_Witness ==
    /\ rlLast.raised /\ rlLast.held >= Limit /\ rlLast.status_code = 200
    /\ \E w \in Servers : ~redis_client[w]

\* C12: a call that found no row of its user and read the entry as completed
\* raises download_count by exactly 1 and touches nothing else, then adds
\* exactly one row of that user, enqueues no job, and answers instant_add;
\* no fetch happens and the status is not changed in either step.
C12_InstantAdd ==
    [][\A s \in Servers :
          /\ (handler[s].step = "h_count" /\ handler'[s].step = "h_commit")
                => /\ cat'.download_count = cat.download_count + 1
                   /\ cat'.status = cat.status /\ cat'.file_path = cat.file_path
                   /\ UNCHANGED <<library, pc, fetched, fileOnDisk, lock>>
          /\ (/\ handler[s].branch = "instant_add" /\ handler[s].step = "h_commit"
              /\ handler'[s].step = "h_return" /\ library[handler[s].u] = 0)
                => /\ library' = [library EXCEPT ![handler[s].u] = 1]
                   /\ handler'[s].status = "instant_add"
                   /\ UNCHANGED <<cat, pc, fetched, fileOnDisk, lock>>]_vars

\* C12 witness: the second user was answered instant_add, both users have
\* their row, the counter went from 1 to 2 and the entry is completed.
C12_Witness ==
    /\ \E s \in Servers : handler[s].status = "instant_add"
    /\ \A u \in Requesters : library[u] = 1
    /\ cat.status = "completed" /\ cat.download_count = 2
    /\ Cardinality(fetched) = 1

\* C13: a call whose user has a row is answered already_owned at its first
\* step, which changes neither the rows, nor the entry, nor the jobs, nor the
\* lock; only a call whose user has no row goes on to read the catalog.
C13_AlreadyOwned ==
    [][\A s \in Servers :
          /\ (handler[s].step = "idle" /\ handler'[s].status = "already_owned")
                => UNCHANGED <<library, cat, age, pc, lock, fileOnDisk, fetched>>
          /\ (handler[s].step = "idle" /\ handler'[s].step = "h_get")
                => library[handler'[s].u] = 0]_vars

\* C13 witness: already_owned was answered while the entry was failed, and
\* while it was completed.
C13_Witness ==
    \E s \in Servers :
        handler[s].status = "already_owned" /\ cat.status = "failed"

\* C14: no user ever has more than one row for the id.
C14_OneRowPerUser == \A u \in Users : library[u] <= 1

\* C14 witness: two calls of the same user raced; one commit was refused and
\* the user has exactly one row.
C14_Witness ==
    \E s \in Servers, u \in Requesters :
        /\ handler[s].status = "error"
        /\ library[u] = 1
        /\ \A v \in Users \ {u} : library[v] = 0

\* C15: no step lowers download_count.
C15_CountNeverDecreases ==
    [][cat'.download_count >= cat.download_count]_vars

\* C16: whenever a row is created, the entry is completed.
C16_RowOnlyWhenCompleted ==
    [][\A u \in Users : library'[u] > library[u] => cat'.status = "completed"]_vars

\* C18: a job whose metadata lookup raised (it is in the except block) is not
\* queued again by the scheduler.
C18_LookupFailureNotRetried ==
    [][\A j \in Users : pc[j] = "t_exc" => pc'[j] # "queued"]_vars

\* C19: the reclaimer writes only to an entry that is downloading and stale
\* at that moment, sets it to pending, and changes nothing else; a query that
\* matches nothing changes nothing.
C19_SweepFrame ==
    [][/\ (sweep = "hit" /\ sweep' = "idle")
            => /\ cat.status = "downloading" /\ Stale
               /\ cat' = [cat EXCEPT !.status = "pending"]
               /\ UNCHANGED <<library, lock, fileOnDisk, pc>>
       /\ (sweep = "idle" /\ sweep' = "hit") => (cat.status = "downloading" /\ Stale)
      ]_vars

\* C20: a request by a user without a row, made while the entry is pending,
\* enqueues a job for the id.
C20_PendingIsRequeued ==
    [][\A u \in Users :
          (cat.status = "pending" /\ library[u] = 0 /\ library'[u] > 0)
             => pc'[u] = "queued"]_vars

\* C17: a job whose download_song call failed at the fetch or at the move
\* ends without being queued again only when its retries are exhausted.
C17_TransferFailureRetried ==
    [][\A j \in Users :
          (j \in transferFailed /\ pc[j] = "t_result" /\ pc'[j] = "done")
             => retries[j] >= max_retries]_vars

\* C21: in a run with no failure of an external call, the entry of a new id
\* is created with status pending (and only later becomes downloading, then
\* completed).
C21_CreatedPending ==
    [][(cat.status = "none" /\ cat'.status # "none" /\ ~extFailed')
          => cat'.status = "pending"]_vars

\* C22: while the requests carry an id that validate_spotify_id refuses, no
\* call gets past its start except to answer a validation error: no library
\* query is made, no row and no catalog entry exist, and no job is enqueued.
C22_MalformedRejected ==
    validate_spotify_id(SpotifyIds[spotify_id]).error
       => /\ \A s \in Servers :
                handler[s].step = "idle" \/ handler[s].status = "validation_error"
          /\ \A u \in Users : library[u] = 0 /\ pc[u] = "none"
          /\ cat = NoDoc

\* C23: releasing the lock raises nothing and leaves the lock absent, whether
\* the lock is there or not (never acquired by the job, or already released
\* by it); a second release has the effect of a single one.  At the two
\* places where download_song releases, the job goes on as if nothing
\* happened: the already-exists path returns True, the finally block keeps
\* the return value.
C23_ReleaseIdempotent ==
    [][/\ \A exists \in BOOLEAN :
             /\ ~Unlink(exists).raised /\ ~Unlink(exists).lock
             /\ Unlink(Unlink(exists).lock) = Unlink(exists)
       /\ \A j \in Users :
             /\ (pc[j] = "d_cleanup" /\ pc'[j] # "d_cleanup")
                   => (~lock' /\ pc'[j] = "d_finally" /\ ret'[j])
             /\ (pc[j] = "d_finally" /\ pc'[j] # "d_finally")
                   => (~lock' /\ pc'[j] = "t_result" /\ ret'[j] = ret[j])
      ]_vars

\* C23 witness: a job took the lock, found the song already there, released
\* the lock on that path and again in the finally block, and returned True.
C23_Witness ==
    \E j \in Users :
        /\ pc[j] = "t_result" /\ acquired[j] = "released" /\ ret[j]
        /\ j \notin fetched /\ ~lock

\* C24: no step that a job takes inside download_song after its lock acquire
\* failed changes the lock.
C24_LoserLeavesLock ==
    [][\A j \in Users :
          (acquired[j] = "lost" /\ pc[j] \in DsPcs /\ pc'[j] # pc[j])
             => lock' = lock]_vars

\* C25: when the reclaimer writes pending the entry is downloading at that
\* moment.
C25_SweepWritesOnlyDownloading ==
    [][(sweep = "hit" /\ sweep' = "idle") => cat.status = "downloading"]_vars

\* C26: a check that is answered 429 adds no member to the sorted set of its
\* key.
C26_DeniedNotRecorded ==
    [][\A w \in Servers :
          (rlReq[w] # NoReq /\ rlReq'[w] = NoReq /\ rlLast'.status_code = 429)
             => zset'[Key(rlReq[w].path)] \subseteq KeyLive(Key(rlReq[w].path))]_vars

\* C27: the requests of the client to the paths of one endpoint class are
\* counted together: when no two allowed requests fall in the same second, at
\* most Limit of them lie in any window of Window seconds, whichever paths of
\* the class they went to.
C27_SharedWindow ==
    (\A t \in DOMAIN rlAllowed : rlAllowed[t] = 1)
       => \A t \in DOMAIN rlAllowed :
             Cardinality({u \in DOMAIN rlAllowed : t - Window < u /\ u <= t}) <= Limit

\* C28: a call of a user whose own job has ended and left the entry failed is
\* not answered at its first step: it goes on to the catalog read that leads
\* to a new job.
C28_RetryAfterFailure ==
    [][\A s \in Servers, u \in Requesters :
          (/\ pc[u] = "done" /\ outcome[u] \in {"failed", "error"}
           /\ cat.status = "failed"
           /\ HandlerLibrary(s, u))
             => handler'[s].step = "h_get"]_vars

\* C29: a lock left on disk by a job whose worker process died is eventually
\* gone.
C29_OrphanedLockGoes ==
    (lock /\ \E j \in Users : acquired[j] = "orphaned") ~> ~lock

C31_OneIncrementPerRow ==
    [][\A s \in Servers :
          (/\ handler[s].branch = "instant_add" /\ handler[s].step = "h_commit"
           /\ handler'[s].step = "h_return")
             => library'[handler[s].u] = library[handler[s].u] + 1]_vars

\* C32: while the id has an entry, download_count is the number of users
\* that have a row for the id.
C32_CountEqualsRows ==
    cat.status # "none"
       => cat.download_count = Cardinality({u \in Users : library[u] > 0})

\* C33: when every enqueued job has ended, the entry is completed or failed.
C33_EndsTerminal ==
    (Finished /\ \E j \in Users : pc[j] = "done")
       => cat.status \in {"completed", "failed"}

\* C34: a job is retried at most 3 times; each retry raises the retry number
\* by one, queues the job again and has countdown 60, 120, 240 for retry
\* number 0, 1, 2; the except block ends the job only at retry number 3, with
\* status error and the entry failed.
C34_RetryPolicy ==
    [][\A j \in Users :
          /\ retries'[j] <= 3
          /\ retries'[j] # retries[j]
                => /\ retries'[j] = retries[j] + 1
                   /\ pc'[j] = "queued"
                   /\ countdown'[j] = CASE retries[j] = 0 -> 60
                                        [] retries[j] = 1 -> 120
                                        [] retries[j] = 2 -> 240
          /\ (pc[j] = "t_exc" /\ pc'[j] = "done")
                => /\ retries[j] = 3
                   /\ outcome'[j] = "error"
                   /\ cat'.status = "failed"]_vars

\* C34 witness: a job ended with status error after its third retry, whose
\* countdown was 240, and the entry is failed.
C34_Witness ==
    \E j \in Users :
        /\ pc[j] = "done" /\ outcome[j] = "error"
        /\ retries[j] = 3 /\ countdown[j] = 240
        /\ cat.status = "failed"

\* C35: every round of the wait loop is one more poll, never more than 30; a
\* round that finds the entry completed returns True at once, a round that
\* does not goes on to the next, and the 30th such round returns False.
C35_BoundedPolling ==
    [][\A j \in Users :
          (pc[j] = "d_poll" /\ (pc'[j] # pc[j] \/ polls'[j] # polls[j]))
             => LET found == cat.status = "completed"
                IN  /\ polls'[j] = polls[j] + 1
                    /\ polls'[j] <= 30
                    /\ found => (pc'[j] = "d_finally" /\ ret'[j])
                    /\ (~found /\ polls'[j] < 30) => pc'[j] = "d_poll"
                    /\ (~found /\ polls'[j] = 30)
                          => (pc'[j] = "d_finally" /\ ~ret'[j])]_vars

\* C36: an entry that is completed has its storage location set, and the
\* file of a successful move is in final storage.
C36_CompletedHasFile ==
    cat.status = "completed" => (cat.file_path /\ fileOnDisk)

\* C36 witness: the entry is completed with its location after a job moved
\* the file and both the service and the task wrote completed.
C36_Witness ==
    /\ cat.status = "completed" /\ cat.file_path /\ fileOnDisk
    /\ \E j \in Users : j \in fetched /\ pc[j] = "done" /\ outcome[j] = "completed"

\* the entries of the table whose pattern the path starts with
Matches(endpoint) ==
    {i \in 1..Len(rate_limits) : StartsWith(endpoint, rate_limits[i].pattern)}

\* C37: a request whose path starts with no pattern of the table is passed on
\* (200) without a check being begun or the store being touched; a check is
\* decided by the requests and window of the first entry of the table whose
\* pattern its path starts with.
C37_FirstPrefixOrUnthrottled ==
    [][\A w \in Servers :
          /\ (rlChecks' = rlChecks + 1 /\ Matches(rlPath) = {})
                => (rlLast'.status_code = 200 /\ UNCHANGED <<zset, expireAt>>)
          /\ (rlReq[w] = NoReq /\ rlReq'[w] # NoReq) => Matches(rlPath) # {}
          /\ (rlReq[w] # NoReq /\ rlReq'[w] = NoReq)
                => LET hits == Matches(rlReq[w].path)
                       first == rate_limits[CHOOSE i \in hits : \A k \in hits : i <= k]
                   IN  /\ hits # {}
                       /\ (rlLast'.status_code = 200) = (rlLast'.seen < first.requests)
                       /\ rlLast'.status_code \in {200, 429}
                       /\ rlLast'.status_code = 429
                             => rlLast'.retry_after = first.window]_vars

\* C37 witness: the last of the client's requests to a path under no pattern
\* was passed on and the store holds no key.
C37_Witness ==
    /\ Matches(rlPath) = {} /\ rlChecks = MaxChecks
    /\ rlLast.status_code = 200 /\ zset = <<>>

====
